---------------------------- MODULE Spec2Model ----------------------------
(***************************************************************************)
(* Model of instaseis' BaseInstaseisDB (base_instaseis_db.py):             *)
(* get_seismograms, _convert_to_stream, get_seismograms_finite_source,     *)
(* _get_seismograms_sanity_checks and the info property, and of the        *)
(* wrappers of axisem_db/spectral_basis.py.                                *)
(*                                                                         *)
(* Times given by the caller and by the database are decimal numbers; the  *)
(* model writes them in tenths of a second (dt10 = 2 is 0.2 s).  The code  *)
(* computes with them as binary floating point numbers, and the model      *)
(* keeps that: a float is an integer count of 2^-FracBits seconds, every   *)
(* arithmetic result is rounded to MantBits significant bits, ties to      *)
(* even.  Python's floats have 53 significant bits; MantBits = 13 leaves   *)
(* every binary expansion of a tenth cut at the same phase of its period   *)
(* of 4 bits (53 = 13 mod 4), so each rounding goes the same way as in     *)
(* the code, and round(x, 8) keeps its role with RoundDigits decimals.     *)
(***************************************************************************)
EXTENDS Integers, Sequences, FiniteSets, TLC

\* an optional value: None, or Some(v) holding v
None == <<>>

Some(v) == <<v>>

Val(o) == o[1]

(* ------------------------- floating point ------------------------------ *)

MantBits == 13

FracBits == MantBits + 3

RoundDigits == 2

RECURSIVE Pow(_, _)
Pow(b, n) == IF n = 0 THEN 1 ELSE b * Pow(b, n - 1)

One == Pow(2, FracBits)

\* num/den rounded to the nearest integer, ties to even
RoundHalfEven(num, den) ==
    LET q == num \div den
        r == num % den
    IN  IF 2 * r > den \/ (2 * r = den /\ q % 2 = 1) THEN q + 1 ELSE q

\* floor(log2(num/den)) for num/den >= 2^e
RECURSIVE ILog2(_, _, _)
ILog2(num, den, e) ==
    IF num >= den * Pow(2, e + 1) THEN ILog2(num, den, e + 1) ELSE e

\* the float nearest to num/den >= 0 (in units of 2^-FracBits)
FRoundAbs(num, den) ==
    IF num = 0 THEN 0
    ELSE IF num < den * Pow(2, MantBits - 1) THEN RoundHalfEven(num, den)
    ELSE LET e    == ILog2(num, den, MantBits - 1)
             step == Pow(2, e - MantBits + 1)
         IN  step * RoundHalfEven(num, den * step)

\* the float nearest to num/den, den > 0
FRound(num, den) ==
    IF num < 0 THEN 0 - FRoundAbs(0 - num, den) ELSE FRoundAbs(num, den)

\* the float of the decimal literal x10/10
FromTenths(x10) == FRound(x10 * One, 10)

FSub(a, b) == FRound(a - b, 1)

\* int * float
FMulInt(n, a) == FRound(n * a, 1)

\* floor(log2(a/b)) for a, b > 0
RECURSIVE FloorLog2(_, _)
FloorLog2(a, b) ==
    IF a >= 2 * b THEN FloorLog2(a, 2 * b) + 1
    ELSE IF a < b THEN FloorLog2(2 * a, b) - 1
    ELSE 0

\* a / b: the quotient's MantBits leading bits, rounded, times its exponent
FDiv(a, b) ==
    IF a = 0 THEN 0
    ELSE LET sh == MantBits - 1 - FloorLog2(a, b)
         IN  IF sh > FracBits THEN RoundHalfEven(a * One, b)
             ELSE IF sh >= 0
             THEN RoundHalfEven(a * Pow(2, sh), b) * Pow(2, FracBits - sh)
             ELSE RoundHalfEven(a, b * Pow(2, 0 - sh)) * Pow(2, FracBits - sh)

\* Python's a % b on non-negative floats: fmod, which is exact
FMod(a, b) == a % b

\* round(a, ndigits): the nearest decimal with that many digits, as a float
PyRoundAbs(a) ==
    LET scale == Pow(10, RoundDigits)
    IN  FRound(RoundHalfEven(a * scale, One) * One, scale)

PyRound(a) == IF a < 0 THEN 0 - PyRoundAbs(0 - a) ELSE PyRoundAbs(a)

\* int(a): truncation towards zero
PyInt(a) == IF a < 0 THEN 0 - ((0 - a) \div One) ELSE a \div One

\* the tenth nearest to a float
ToTenths(a) == RoundHalfEven(a * 10, One)

(* ----------------------------- bounds ---------------------------------- *)

\* the largest src_shift_samples of a database
MaxShiftSamples == 2

\* the largest resampling dt of a call, in tenths of a second
MaxDt10 == 2

\* the largest number of requested components
MaxComponents == 2

\* the largest number of point sources of a finite source
MaxSources == 2

(* ----------------------------- databases ------------------------------- *)

\* info.dt of the databases, in tenths of a second
DbDt10 == 3

\* info.npts and info.nfft
Npts == 6

Nfft == 8

StfTags == {"errorf", "quheavi", "dirac_0", "gauss_0", "gauss_1", "gauss_2"}

\* the dictionaries _get_info returns (the fields the methods read)
AllInfos ==
    [is_reciprocal : BOOLEAN,
     components : {{"vertical", "horizontal"}, {"vertical"}, {"horizontal"}},
     dt10 : {DbDt10},
     npts : {Npts},
     nfft : {Nfft},
     stf : StfTags,
     src_shift_samples : 0 .. MaxShiftSamples]

\* the databases of the calls below: reciprocal ones with both component
\* classes or the vertical one only, and forward ones
Infos ==
    {i \in AllInfos :
        \/ i.is_reciprocal /\ "vertical" \in i.components
        \/ ~i.is_reciprocal /\ i.components = {"vertical", "horizontal"}}

\* info.src_shift: src_shift_samples sampling intervals, in tenths of a second
src_shift10(info) == info.src_shift_samples * info.dt10

src_shift(info) == FromTenths(src_shift10(info))

(* --------------------- sources, receivers, requests -------------------- *)

DEFAULT_MU == 32

\* Source and ForceSource objects.  dt10 and sliprate are None when the
\* source carries no source time function, time_shift counts sampling
\* intervals, in_db tells whether the database covers the source position
SourcePool ==
    { [id |-> 1, type |-> "Source", dt10 |-> Some(DbDt10), sliprate |-> <<1, 1>>,
       time_shift |-> None, origin_time |-> Some(100), depth_in_m |-> Some(10),
       mu |-> 32, in_db |-> TRUE],
      [id |-> 2, type |-> "ForceSource", dt10 |-> Some(DbDt10), sliprate |-> <<0, 2>>,
       time_shift |-> Some(1), origin_time |-> None, depth_in_m |-> None,
       mu |-> 64, in_db |-> TRUE],
      [id |-> 3, type |-> "Source", dt10 |-> None, sliprate |-> None,
       time_shift |-> None, origin_time |-> Some(100), depth_in_m |-> Some(10),
       mu |-> 32, in_db |-> TRUE],
      [id |-> 4, type |-> "Source", dt10 |-> Some(DbDt10 + 1), sliprate |-> <<1>>,
       time_shift |-> None, origin_time |-> Some(100), depth_in_m |-> Some(10),
       mu |-> 32, in_db |-> TRUE],
      [id |-> 5, type |-> "Source", dt10 |-> Some(DbDt10), sliprate |-> <<1>>,
       time_shift |-> None, origin_time |-> Some(100), depth_in_m |-> Some(10),
       mu |-> 32, in_db |-> FALSE] }

ReceiverPool ==
    { [station |-> "STA", network |-> "NET", depth_in_m |-> None] }

KnownKinds == {"displacement", "velocity", "acceleration"}

KnownComponents == {"N", "E", "Z", "R", "T"}

\* what a caller passes as kind and as component codes
RequestKinds == KnownKinds \cup {"strain"}

RequestCodes == {"Z", "N", "X"}

RECURSIVE TuplesUpTo(_, _)
TuplesUpTo(S, n) ==
    IF n = 0 THEN {<<>>}
    ELSE LET shorter == TuplesUpTo(S, n - 1)
         IN  shorter \cup
             {Append(t, c) : t \in {u \in shorter : Len(u) = n - 1}, c \in S}

CodeRank(c) == CASE c = "Z" -> 1 [] c = "N" -> 2 [] c = "X" -> 3

\* every code at most once, in the order Z, N, X
Ordered(t) == \A i, j \in 1 .. Len(t) : i < j => CodeRank(t[i]) < CodeRank(t[j])

RequestComponents ==
    {t \in TuplesUpTo(RequestCodes, MaxComponents) : Ordered(t)}

RequestDts == {None} \cup {Some(d) : d \in 1 .. MaxDt10}

Range(t) == {t[i] : i \in 1 .. Len(t)}

(* --------------------------- time series ------------------------------- *)

RECURSIVE SumTo(_, _)
SumTo(f, n) == IF n = 0 THEN 0 ELSE f[n] + SumTo(f, n - 1)

\* the first n samples of x, zero padded (the n= argument of rfft)
Pad(x, n) == [i \in 1 .. n |-> IF i <= Len(x) THEN x[i] ELSE 0]

\* the product of two spectra of length n, back in the time domain
CircConv(x, h, n) ==
    [i \in 1 .. n |->
        SumTo([j \in 1 .. n |-> x[j] * h[((i - j) % n) + 1]], n)]

\* x delayed by k samples, cyclically
CircShift(x, k, n) == [i \in 1 .. n |-> x[((i - 1 - k) % n) + 1]]

\* info.sliprate and info.slip: the reference source time function of the
\* database, an impulse at the source shift, and its integral
info_sliprate(info) ==
    [i \in 1 .. info.npts |-> IF i = info.src_shift_samples + 1 THEN 1 ELSE 0]

info_slip(info) ==
    [i \in 1 .. info.npts |-> IF i >= info.src_shift_samples + 1 THEN 1 ELSE 0]

Onset(h) == CHOOSE i \in 1 .. Len(h) : h[i] # 0 /\ \A j \in 1 .. i - 1 : h[j] = 0

\* the quotient of the spectrum of x by that of the reference h: h's delay
\* is taken back, and when h is a step (it stays up after its onset) the
\* result is differenced
Deconvolve(x, h, n) ==
    LET back == CircShift(x, 0 - (Onset(h) - 1), n)
    IN  IF h[Len(h)] = 0 THEN back
        ELSE [i \in 1 .. n |-> back[i] - back[((i - 2) % n) + 1]]

\* np.gradient(f, [h]): central differences, one-sided at both ends
Gradient(f, h) ==
    LET n == Len(f)
    IN  [i \in 1 .. n |->
            IF i = 1 THEN (f[2] - f[1]) \div h
            ELSE IF i = n THEN (f[n] - f[n - 1]) \div h
            ELSE (f[i + 1] - f[i - 1]) \div (2 * h)]

\* cumtrapz(f, dx=h, initial=0.0)
Cumtrapz(f, h) ==
    [i \in 1 .. Len(f) |->
        IF i = 1 THEN 0
        ELSE (SumTo([j \in 1 .. i - 1 |-> f[j] + f[j + 1]], i - 1) * h) \div 2]

\* Differentiate when the loop body runs once for every n > 0
DifferentiateOnce(n, f, h) == IF n <= 0 THEN f ELSE Gradient(f, h)

\* for _ in np.arange(n): data[comp] = np.gradient(data[comp], [dt_out])
RECURSIVE Differentiate(_, _, _)
Differentiate(n, f, h) ==
    IF n <= 0 THEN f ELSE Differentiate(n - 1, Gradient(f, h), h)

\* for _ in np.arange(n): data[comp] = cumtrapz(data[comp], dx=dt_out, ...)
RECURSIVE Integrate(_, _, _)
Integrate(n, f, h) ==
    IF n <= 0 THEN f ELSE Integrate(n - 1, Cumtrapz(f, h), h)

\* f[k:]
DropLeading(f, k) == SubSeq(f, k + 1, Len(f))

\* lanczos.lanczos_interpolation(data, old_start=0, old_dt, new_start, new_dt,
\* new_npts, a, window): one sample per new instant, read off the old series
\* (the last old sample at or before the instant; zero outside the old series)
lanczos_interpolation(data, old_dt, new_start, new_dt, new_npts) ==
    [i \in 1 .. new_npts |->
        LET at == (new_start + (i - 1) * new_dt) \div old_dt
        IN  IF at >= 0 /\ at + 1 <= Len(data) THEN data[at + 1] ELSE 0]

\* what the database stores for a source and a component
ComponentWeight(comp) ==
    CASE comp = "Z" -> 1 [] comp = "N" -> 2 [] comp = "E" -> 3
      [] comp = "R" -> 4 [] comp = "T" -> 5

Pulse == <<0, 1, 4, 6, 3, 1>>

\* _get_seismograms(source, receiver, components): the raw series of every
\* requested component and the shear modulus at the source
_get_seismograms(source, receiver, components) ==
    [mu |-> source.mu,
     series |-> [c \in Range(components) |->
                    [i \in 1 .. Npts |->
                        12 * (source.id * Pulse[i] + ComponentWeight(c) * i)]]]

(* --------------------------- get_seismograms --------------------------- *)

\* A call of get_seismograms is a frame: its arguments, its locals, the
\* place it has reached (pc), how it ended (outcome, ret) and the steps it
\* has taken so far (log).
NewFrame(source, receiver, components, kind, remove_source_shift, reconvolve_stf, return_obspy_stream, dt) ==
    [pc |-> "sanity_checks",
     source |-> source, receiver |-> receiver, components |-> components,
     kind |-> kind, remove_source_shift |-> remove_source_shift,
     reconvolve_stf |-> reconvolve_stf,
     return_obspy_stream |-> return_obspy_stream, dt |-> dt,
     data |-> None, dt_out |-> 0, n_derivative |-> 0, next |-> 1,
     time_shift |-> None,
     outcome |-> "running", ret |-> None, warned |-> FALSE, log |-> <<>>]

Raise(f, error) ==
    [f EXCEPT !.pc = "done", !.outcome = error,
              !.log = Append(@, <<"raise", error>>)]

\* _get_seismograms_sanity_checks when a reciprocal database is not asked
\* whether it stores the vertical component
SanityChecksVerticalUnchecked(info, f) ==
    LET requested == Range(f.components)
        warns == IF info.is_reciprocal THEN f.receiver.depth_in_m # None
                 ELSE f.source.depth_in_m # None
        g == [f EXCEPT !.log = Append(@, <<"sanity_checks">>)]
    IN  IF f.kind \notin KnownKinds THEN Raise(g, "ValueError")
        ELSE IF \E c \in requested : c \notin KnownComponents
        THEN Raise(g, "ValueError")
        ELSE IF /\ info.is_reciprocal
                /\ requested \cap {"N", "E", "R", "T"} # {}
                /\ "horizontal" \notin info.components
        THEN Raise([g EXCEPT !.warned = warns], "ValueError")
        ELSE [g EXCEPT !.warned = warns, !.pc = "extract"]

\* _get_seismograms_sanity_checks, for Source, ForceSource and Receiver
\* objects (nothing to parse)
_get_seismograms_sanity_checks(info, f) ==
    LET requested == Range(f.components)
        warns == IF info.is_reciprocal THEN f.receiver.depth_in_m # None
                 ELSE f.source.depth_in_m # None
        g == [f EXCEPT !.log = Append(@, <<"sanity_checks">>)]
    IN  IF f.kind \notin KnownKinds THEN Raise(g, "ValueError")
        ELSE IF \E c \in requested : c \notin KnownComponents
        THEN Raise(g, "ValueError")
        ELSE IF /\ info.is_reciprocal
                /\ requested \cap {"N", "E", "R", "T"} # {}
                /\ "horizontal" \notin info.components
        THEN Raise([g EXCEPT !.warned = warns], "ValueError")
        ELSE IF /\ info.is_reciprocal
                /\ "Z" \in requested
                /\ "vertical" \notin info.components
        THEN Raise([g EXCEPT !.warned = warns], "ValueError")
        ELSE [g EXCEPT !.warned = warns, !.pc = "extract"]

\* the call of the implementation's _get_seismograms, which fails for a
\* source the database does not cover
Extract(info, f) ==
    LET g == [f EXCEPT !.log = Append(@, <<"_get_seismograms">>)]
    IN  IF ~f.source.in_db THEN Raise(g, "ExtractionError")
        ELSE [g EXCEPT !.pc = "prepare",
                       !.data = _get_seismograms(f.source, f.receiver,
                                                 f.components)]

kind_map(kind) ==
    CASE kind = "displacement" -> 0
      [] kind = "velocity" -> 1
      [] kind = "acceleration" -> 2

stf_map(stf) ==
    CASE stf = "errorf" -> 0
      [] stf = "quheavi" -> 0
      [] stf = "dirac_0" -> 1
      [] stf = "gauss_0" -> 1
      [] stf = "gauss_1" -> 2
      [] stf = "gauss_2" -> 3

\* stf_deconv_map: the reference series deconvolved for a stored order
stf_deconv_map(info, order) ==
    CASE order = 0 -> info_sliprate(info)
      [] order = 1 -> info_slip(info)

\* ForceCorrection without the two extra orders of a force source
ForceCorrectionNone(source) == 0

ForceCorrection(source) == IF source.type = "ForceSource" THEN 2 ELSE 0

n_derivative(info, kind, source) ==
    kind_map(kind) - stf_map(info.stf) + ForceCorrection(source)

\* FlagsConflict when the two flags are never compared
FlagsConflictUnchecked(f) == FALSE

FlagsConflict(f) == f.reconvolve_stf /\ f.remove_source_shift

\* dt_out, n_derivative and the check of the two flags
Prepare(info, f) ==
    LET g == [f EXCEPT !.dt_out = IF f.dt = None THEN info.dt10 ELSE Val(f.dt),
                       !.n_derivative = n_derivative(info, f.kind, f.source),
                       !.log = Append(@, <<"prepare">>)]
    IN  IF FlagsConflict(f) THEN Raise(g, "ValueError")
        ELSE [g EXCEPT !.pc = IF f.components = <<>> THEN "return"
                              ELSE "component"]

\* the source's sliprate with its time shift, convolved in; the reference
\* series of the database, deconvolved; cut to npts samples
Reconvolve(info, source, series) ==
    LET n == info.nfft
        stf_deconv == Pad(stf_deconv_map(info, stf_map(info.stf)), n)
        stf_plain == Pad(source.sliprate, n)
        stf_conv == IF source.time_shift = None THEN stf_plain
                    ELSE CircShift(stf_plain, Val(source.time_shift), n)
        dataf == Pad(series, n)
    IN  SubSeq(Deconvolve(CircConv(dataf, stf_conv, n), stf_deconv, n),
               1, info.npts)

\* Deconvolvable when only order 0 is accepted
DeconvolvableOrderZero(info) == stf_map(info.stf) \in {0}

Deconvolvable(info) == stf_map(info.stf) \in {0, 1}

\* abs((source.dt - self.info.dt) / self.info.dt) > 1e-7
DtIncompatible(info, source) == Val(source.dt10) # info.dt10

\* shift = round(self.info.src_shift % dt, 8)
AlignmentShift(info, dt10) == PyRound(FMod(src_shift(info), FromTenths(dt10)))

\* new_npts = int(round(duration / dt, 6)) + 1
NewNpts(info, dt10, len, shift) ==
    LET duration == FSub(FMulInt(len - 1, FromTenths(info.dt10)), shift)
    IN  PyInt(PyRound(FDiv(duration, FromTenths(dt10)))) + 1

\* round(int(time_shift / dt), 8)
ShiftSamples(time_shift, dt10) == PyInt(FDiv(time_shift, FromTenths(dt10)))

\* n log entries, none for n <= 0 (np.arange(n))
Repeated(entry, n) == [i \in 1 .. (IF n > 0 THEN n ELSE 0) |-> entry]

HasStf(source) == source.dt10 # None /\ source.sliprate # None

\* the checks at the head of the loop body, made when reconvolve_stf is
\* set: the error raised, or "none"
ReconvolveError(info, f) ==
    IF ~f.reconvolve_stf THEN "none"
    ELSE IF ~HasStf(f.source) THEN "ValueError"
    ELSE IF ~Deconvolvable(info) THEN "NotImplementedError"
    ELSE IF DtIncompatible(info, f.source) THEN "ValueError"
    ELSE "none"

\* the rest of the loop body for components[next]: reconvolution,
\* resampling, differentiation or integration, removal of the source shift
Transform(info, f) ==
    LET comp == f.components[f.next]
        raw == f.data.series[comp]
        reconvolved == IF f.reconvolve_stf
                       THEN Reconvolve(info, f.source, raw) ELSE raw
        shift == AlignmentShift(info, Val(f.dt))
        new_npts == NewNpts(info, Val(f.dt), Len(reconvolved), shift)
        resampled == IF f.dt = None THEN reconvolved
                     ELSE lanczos_interpolation(reconvolved,
                              FromTenths(info.dt10), shift,
                              FromTenths(Val(f.dt)), new_npts)
        time_shift == IF f.dt = None THEN src_shift(info)
                      ELSE FSub(src_shift(info), shift)
        derived == IF f.n_derivative > 0
                   THEN Differentiate(f.n_derivative, resampled, f.dt_out)
                   ELSE Integrate(0 - f.n_derivative, resampled, f.dt_out)
        dropped == IF f.dt = None THEN info.src_shift_samples
                   ELSE ShiftSamples(time_shift, Val(f.dt))
        final == IF f.remove_source_shift THEN DropLeading(derived, dropped)
                 ELSE derived
        steps == (IF f.reconvolve_stf THEN <<(<<"reconvolve", comp>>)>> ELSE <<>>)
                 \o (IF f.dt # None
                     THEN <<(<<"resample", comp, shift, Len(resampled)>>)>>
                     ELSE <<>>)
                 \o Repeated(<<"gradient", comp>>, f.n_derivative)
                 \o Repeated(<<"cumtrapz", comp>>, 0 - f.n_derivative)
                 \o (IF f.remove_source_shift
                     THEN <<(<<"drop", comp, dropped, Len(derived), Len(final)>>)>>
                     ELSE <<>>)
    IN  [f EXCEPT !.data.series[comp] = final,
                  !.time_shift =
                      IF f.remove_source_shift \/ f.reconvolve_stf
                      THEN Some(0) ELSE Some(time_shift),
                  !.log = @ \o steps,
                  !.next = @ + 1,
                  !.pc = IF f.next = Len(f.components) THEN "return"
                         ELSE "component"]

\* Component when the dt of the source is compared only after the series
\* has been transformed
ComponentChecksDtLate(info, f) ==
    IF ReconvolveError(info, f) # "none" /\ ~(/\ HasStf(f.source)
                                             /\ Deconvolvable(info))
    THEN Raise(f, ReconvolveError(info, f))
    ELSE IF ReconvolveError(info, f) # "none"
    THEN Raise(Transform(info, f), ReconvolveError(info, f))
    ELSE Transform(info, f)

\* one pass of the loop over the components
Component(info, f) ==
    IF ReconvolveError(info, f) # "none"
    THEN Raise(f, ReconvolveError(info, f))
    ELSE Transform(info, f)

\* _convert_to_stream: one trace per component, all with the same header
_convert_to_stream(source, receiver, components, data, dt_out, time_shift) ==
    LET origin_time == IF source.origin_time # None
                       THEN Val(source.origin_time) * One ELSE 0
    IN  [i \in 1 .. Len(components) |->
            [data |-> data.series[components[i]],
             delta |-> dt_out,
             starttime |-> origin_time - time_shift,
             station |-> receiver.station,
             network |-> receiver.network,
             channel |-> components[i],
             mu |-> data.mu]]

\* the end of get_seismograms; time_shift is unbound when the loop over the
\* components never ran
Return(f) ==
    IF ~f.return_obspy_stream
    THEN [f EXCEPT !.pc = "done", !.outcome = "returned", !.ret = f.data]
    ELSE IF f.time_shift = None THEN Raise(f, "UnboundLocalError")
    ELSE [f EXCEPT !.pc = "done", !.outcome = "returned",
                   !.ret = _convert_to_stream(f.source, f.receiver,
                               f.components, f.data, f.dt_out,
                               Val(f.time_shift))]

StepFrame(info, f) ==
    CASE f.pc = "sanity_checks" -> _get_seismograms_sanity_checks(info, f)
      [] f.pc = "extract" -> Extract(info, f)
      [] f.pc = "prepare" -> Prepare(info, f)
      [] f.pc = "component" -> Component(info, f)
      [] f.pc = "return" -> Return(f)

RECURSIVE RunFrame(_, _)
RunFrame(info, f) == IF f.pc = "done" THEN f ELSE RunFrame(info, StepFrame(info, f))

\* a whole call of get_seismograms
get_seismograms(info, source, receiver, components, kind, remove_source_shift, reconvolve_stf, return_obspy_stream, dt) ==
    RunFrame(info, NewFrame(source, receiver, components, kind,
                            remove_source_shift, reconvolve_stf,
                            return_obspy_stream, dt))

(* -------------------- get_seismograms_finite_source -------------------- *)

\* A call of get_seismograms_finite_source: its arguments, its locals (_i
\* counts the sources the loop has finished, data is what the last call of
\* get_seismograms returned, data_summed is a dictionary keyed by component);
\* extracted and progress list the calls of get_seismograms (by position of
\* the source) and of the progress callback (its two arguments and its
\* answer).
NewFinite(sources, receiver, components, kind, dt, correct_mu, progress_callback) ==
    [pc |-> "reciprocal",
     sources |-> sources, receiver |-> receiver, components |-> components,
     kind |-> kind, dt |-> dt, correct_mu |-> correct_mu,
     progress_callback |-> progress_callback,
     count |-> Len(sources), _i |-> 0,
     data |-> None, data_bound |-> FALSE,
     data_summed |-> [c \in {} |-> <<>>],
     lanczos_data |-> [c \in {} |-> <<>>],
     before_resampling |-> [c \in {} |-> <<>>],
     extracted |-> <<>>, progress |-> <<>>,
     outcome |-> "running", ret |-> None]

FiniteRaise(s, error) == [s EXCEPT !.pc = "done", !.outcome = error]

\* ReciprocalCheck when the mode of the database is not looked at
ReciprocalCheckSkipped(info, s) ==
    [s EXCEPT !.pc = IF s.count = 0 THEN "resample" ELSE "source"]

\* if not self.info.is_reciprocal: raise NotImplementedError
ReciprocalCheck(info, s) ==
    IF ~info.is_reciprocal THEN FiniteRaise(s, "NotImplementedError")
    ELSE [s EXCEPT !.pc = IF s.count = 0 THEN "resample" ELSE "source"]

Scale(series, num, den) == [i \in 1 .. Len(series) |-> (series[i] * num) \div den]

AddSeries(a, b) == [i \in 1 .. Len(a) |-> a[i] + b[i]]

\* the kind get_seismograms is called with for every point source
SourceKind(kind) == "displacement"

\* what is added up for a component: data[comp] * corr_fac
Contribution(data, comp, correct_mu) ==
    IF correct_mu THEN Scale(data.series[comp], data.mu, DEFAULT_MU)
    ELSE data.series[comp]

\* SourceStep when a source whose extraction fails is skipped
SourceStepSkipsFailure(info, s) ==
    LET source == s.sources[s._i + 1]
        call == get_seismograms(info, source, s.receiver, s.components,
                                "displacement", FALSE, TRUE, FALSE, None)
        t == [s EXCEPT !.extracted = Append(@, s._i + 1)]
    IN  [t EXCEPT !._i = @ + 1,
                  !.data = IF call.outcome = "returned" THEN call.ret ELSE @,
                  !.pc = IF s.progress_callback THEN "callback"
                         ELSE IF s._i + 1 = s.count THEN "resample"
                         ELSE "source"]

\* the loop body up to the callback: get_seismograms for the next source,
\* then the sum
SourceStep(info, s) ==
    LET source == s.sources[s._i + 1]
        call == get_seismograms(info, source, s.receiver, s.components,
                                SourceKind(s.kind), FALSE, TRUE, FALSE, None)
        t == [s EXCEPT !.extracted = Append(@, s._i + 1)]
        data == call.ret
        summed == [c \in DOMAIN s.data_summed \cup Range(s.components) |->
                     IF c \notin Range(s.components) THEN s.data_summed[c]
                     ELSE IF c \in DOMAIN s.data_summed
                     THEN AddSeries(s.data_summed[c],
                                    Contribution(data, c, s.correct_mu))
                     ELSE Contribution(data, c, s.correct_mu)]
    IN  IF call.outcome # "returned" THEN FiniteRaise(t, call.outcome)
        ELSE [t EXCEPT !.data = data, !.data_bound = TRUE,
                       !.data_summed = summed,
                       !._i = @ + 1,
                       !.pc = IF s.progress_callback THEN "callback"
                              ELSE IF s._i + 1 = s.count THEN "resample"
                              ELSE "source"]

\* Callback when the answer of the callback is ignored
CallbackIgnoresAnswer(s, cancel) ==
    [s EXCEPT !.progress = Append(@, <<s._i, s.count, cancel>>),
              !.pc = IF s._i = s.count THEN "resample" ELSE "source"]

\* cancel = progress_callback(_i + 1, count); if cancel: return None
Callback(s, cancel) ==
    LET t == [s EXCEPT !.progress = Append(@, <<s._i, s.count, cancel>>)]
    IN  IF cancel
        THEN [t EXCEPT !.pc = "done", !.outcome = "returned None", !.ret = None]
        ELSE [t EXCEPT !.pc = IF s._i = s.count THEN "resample" ELSE "source"]

\* starttime = round(src_shift - int(round(src_shift / dt, 5)) * dt, 5)
FiniteStart(info, dt10) ==
    LET dt == FromTenths(dt10)
    IN  PyRound(FSub(src_shift(info),
                     FMulInt(PyInt(PyRound(FDiv(src_shift(info), dt))), dt)))

\* the series handed to the resampling kernel for a component
ResamplingInput(s, comp) == s.data.series[comp]

\* the final resampling pass over the components, when dt is given
FiniteResample(info, s) ==
    LET starttime == FiniteStart(info, Val(s.dt))
        new_npts(comp) == NewNpts(info, Val(s.dt),
                                  Len(s.data.series[comp]), starttime)
        resampled(comp) ==
            lanczos_interpolation(ResamplingInput(s, comp),
                FromTenths(info.dt10), starttime, FromTenths(Val(s.dt)),
                new_npts(comp))
        requested == Range(s.components)
    IN  IF s.dt = None \/ s.components = <<>> THEN [s EXCEPT !.pc = "stream"]
        ELSE IF ~s.data_bound THEN FiniteRaise(s, "UnboundLocalError")
        ELSE [s EXCEPT !.pc = "stream",
                       !.before_resampling = s.data_summed,
                       !.lanczos_data =
                           [c \in requested |-> ResamplingInput(s, c)],
                       !.data_summed =
                           [c \in DOMAIN s.data_summed \cup requested |->
                              IF c \in requested THEN resampled(c)
                              ELSE s.data_summed[c]]]

\* the Stream returned: one trace per component
FiniteStream(info, s) ==
    IF \E c \in Range(s.components) : c \notin DOMAIN s.data_summed
    THEN FiniteRaise(s, "KeyError")
    ELSE [s EXCEPT !.pc = "done", !.outcome = "returned",
                   !.ret = [i \in 1 .. Len(s.components) |->
                              [data |-> s.data_summed[s.components[i]],
                               delta |-> IF s.dt = None THEN info.dt10
                                         ELSE Val(s.dt),
                               station |-> s.receiver.station,
                               network |-> s.receiver.network,
                               channel |-> s.components[i]]]]

(* ------------------------------- info ---------------------------------- *)

\* the largest number of operations a caller performs on the handle
MaxOps == 2

\* the largest number of calls of _get_info that raise
MaxFailures == 1

\* the largest number of threads that use one handle
MaxThreads == 2

\* A freshly opened handle: no attribute __cached_info yet; _get_info lists
\* how each call of the implementation's _get_info ended.  The k-th call
\* that returns gives a new dictionary, and AttribDict(...) of it is a new
\* object: object k.
NewHandle == [cached_info |-> None, _get_info |-> <<>>]

\* what a caller does with the handle
Operations ==
    {"info", "__str__", "get_seismograms", "get_seismograms_finite_source"}

\* reads of self.info in an operation: __str__ reads it once and keeps the
\* object; get_seismograms reads it in the sanity checks and again for every
\* field it uses later (two reads stand for them);
\* get_seismograms_finite_source reads it for is_reciprocal and then calls
\* get_seismograms
InfoReads(op) ==
    CASE op = "info" -> 1
      [] op = "__str__" -> 1
      [] op = "get_seismograms" -> 2
      [] op = "get_seismograms_finite_source" -> 3

\* A caller: the operations it has started (ops), the reads of info left in
\* the running one, the object its running call of _get_info returned (new),
\* the objects its reads of info returned (seen) and the errors it got
NewThread ==
    [pc |-> "idle", ops |-> <<>>, reads_left |-> 0, new |-> None,
     seen |-> <<>>, errors |-> 0]

StartOperation(th, op) ==
    [th EXCEPT !.pc = "try", !.ops = Append(@, op), !.reads_left = InfoReads(op)]

\* Cached when the attribute is never found
CachedNever(h) == FALSE

\* try: return self.__cached_info succeeds
Cached(h) == h.cached_info # None

\* return self.__cached_info
ReturnCached(h, th) ==
    [th EXCEPT !.seen = Append(@, Val(h.cached_info)),
               !.new = None,
               !.reads_left = @ - 1,
               !.pc = IF th.reads_left = 1 THEN "idle" ELSE "try"]

\* try: return self.__cached_info / except: pass
TryCached(h, th) ==
    IF Cached(h) THEN ReturnCached(h, th) ELSE [th EXCEPT !.pc = "_get_info"]

\* self._get_info() returns, and AttribDict(...) wraps what it returned
GetInfoReturns(h, th) == [th EXCEPT !.pc = "store", !.new = Some(Len(h._get_info) + 1)]

\* self._get_info() raises: the error ends the operation
GetInfoRaises(h, th) ==
    [th EXCEPT !.pc = "idle", !.reads_left = 0, !.errors = @ + 1]

\* self.__cached_info = AttribDict(self._get_info())
StoreCached(h, th) == [h EXCEPT !.cached_info = th.new]

NumberOf(calls, how) == Cardinality({i \in 1 .. Len(calls) : calls[i] = how})

(* --------------------------- spectral basis ---------------------------- *)

\* the largest order n of a call, and the number of orders below 1
MaxOrder == 5

MaxInvalid == 4

BasisOperations ==
    {"zelegl", "zemngl2", "def_lagrange_derivs_gll", "def_lagrange_derivs_glj"}

\* A call of one of the wrappers: the shapes of the arrays it allocated, the
\* routines of the library it called (name, order, number of arrays handed
\* over), how it ended and the shapes of what it returned
NewBasisCall(op, n) ==
    [pc |-> "allocate", op |-> op, n |-> n, arrays |-> <<>>, lib |-> <<>>,
     outcome |-> "running", ret |-> <<>>]

\* the shapes of the arrays of a wrapper: np.zeros(n + 1) and
\* np.zeros((n + 1, n + 1))
BasisArrays(op, n) ==
    CASE op \in {"zelegl", "zemngl2"} -> <<(<<n + 1>>)>>
      [] op = "def_lagrange_derivs_gll" -> <<(<<n + 1, n + 1>>)>>
      [] op = "def_lagrange_derivs_glj" -> <<(<<n + 1>>), (<<n + 1, n + 1>>)>>

\* np.zeros raises ValueError for a negative dimension
NegativeDimension(n) == n + 1 < 0

\* np.zeros(...)
BasisAllocate(b) ==
    IF NegativeDimension(b.n)
    THEN [b EXCEPT !.pc = "done", !.outcome = "ValueError"]
    ELSE [b EXCEPT !.pc = "lib", !.arrays = BasisArrays(b.op, b.n)]

\* the routine of the library a wrapper calls
BasisRoutine(op) ==
    CASE op = "zelegl" -> "zelegl"
      [] op = "zemngl2" -> "zemngl2"
      [] op = "def_lagrange_derivs_gll" -> "def_lagrange_derivs_gll"
      [] op = "def_lagrange_derivs_glj" -> "def_lagrange_derivs_gll"

\* how a call of the library can end: for an order below 1 the routines are
\* not defined (they write the end points of an array that may hold less),
\* so the call returns or the process fails
LibOutcomes(n) == IF n >= 1 THEN {"returned"} ELSE {"returned", "fault"}

\* lib.<routine>(C.c_int(n), pointers to the arrays)
BasisLib(b, how) ==
    LET c == [b EXCEPT !.lib = Append(@, <<BasisRoutine(b.op), b.n, Len(b.arrays)>>)]
    IN  IF how = "fault" THEN [c EXCEPT !.pc = "done", !.outcome = "fault"]
        ELSE [c EXCEPT !.pc = "return"]

\* return data / return G / return G0, G1
BasisReturn(b) ==
    [b EXCEPT !.pc = "done", !.outcome = "returned", !.ret = b.arrays]

(* --------------------------- the state --------------------------------- *)

\* info: the metadata of the open database; frame: the running call of
\* get_seismograms; finite: the running call of
\* get_seismograms_finite_source; handle: the cache of the info property;
\* threads: the callers that use the handle; basis: the running call of a
\* wrapper of the spectral basis
VARIABLES info, frame, finite, handle, threads, basis

vars == <<info, frame, finite, handle, threads, basis>>

\* no call of that method
Idle == [pc |-> "idle"]

Requests ==
    {NewFrame(source, receiver, components, kind, remove_source_shift,
              reconvolve_stf, return_obspy_stream, dt) :
        source \in SourcePool, receiver \in ReceiverPool,
        components \in RequestComponents, kind \in RequestKinds,
        remove_source_shift \in BOOLEAN, reconvolve_stf \in BOOLEAN,
        return_obspy_stream \in BOOLEAN, dt \in RequestDts}

Init ==
    /\ info \in Infos
    /\ frame \in Requests
    /\ finite = Idle
    /\ handle = NewHandle
    /\ threads = <<>>
    /\ basis = Idle

SanityChecks ==
    /\ frame.pc = "sanity_checks"
    /\ frame' = _get_seismograms_sanity_checks(info, frame)
    /\ UNCHANGED <<info, finite, handle, threads, basis>>

GetSeismograms ==
    /\ frame.pc = "extract"
    /\ frame' = Extract(info, frame)
    /\ UNCHANGED <<info, finite, handle, threads, basis>>

PrepareStep ==
    /\ frame.pc = "prepare"
    /\ frame' = Prepare(info, frame)
    /\ UNCHANGED <<info, finite, handle, threads, basis>>

ComponentStep ==
    /\ frame.pc = "component"
    /\ frame' = Component(info, frame)
    /\ UNCHANGED <<info, finite, handle, threads, basis>>

ReturnStep ==
    /\ frame.pc = "return"
    /\ frame' = Return(frame)
    /\ UNCHANGED <<info, finite, handle, threads, basis>>

Next ==
    \/ SanityChecks
    \/ GetSeismograms
    \/ PrepareStep
    \/ ComponentStep
    \/ ReturnStep

Spec == Init /\ [][Next]_vars

(* ------------- calls that exercise the sanity checks ------------------- *)

\* databases with every stored component set, reciprocal and forward
SanityInfos ==
    {i \in AllInfos : i.stf = "errorf" /\ i.src_shift_samples = 0}

\* sources with and without a depth
SanitySourcePool == {src \in SourcePool : src.id \in {1, 2}}

\* receivers without and with a depth
SanityReceiverPool ==
    ReceiverPool \cup {[station |-> "STA", network |-> "NET", depth_in_m |-> Some(0)]}

SanityRequests ==
    {NewFrame(source, receiver, components, kind, FALSE, FALSE, FALSE, None) :
        source \in SanitySourcePool, receiver \in SanityReceiverPool,
        components \in RequestComponents, kind \in RequestKinds}

InitSanity ==
    /\ info \in SanityInfos
    /\ frame \in SanityRequests
    /\ finite = Idle
    /\ handle = NewHandle
    /\ threads = <<>>
    /\ basis = Idle

SpecSanity == InitSanity /\ [][Next]_vars

(* ----------------- calls of get_seismograms_finite_source -------------- *)

\* the point sources of a finite source: in the database with a source time
\* function (1, 2), outside the database (5)
FiniteSourcePool == {src \in SourcePool : src.id \in {1, 2, 5}}

FiniteInfos ==
    {i \in Infos : /\ i.stf \in {"errorf", "dirac_0", "gauss_1"}
                   /\ i.components = {"vertical", "horizontal"}}

FiniteComponents == {t \in RequestComponents : Range(t) \subseteq {"Z", "N"}}

FiniteRequests ==
    {NewFinite(sources, receiver, components, kind, dt, correct_mu,
               progress_callback) :
        sources \in TuplesUpTo(FiniteSourcePool, MaxSources),
        receiver \in ReceiverPool, components \in FiniteComponents,
        kind \in {"displacement", "velocity"}, dt \in RequestDts,
        correct_mu \in BOOLEAN, progress_callback \in BOOLEAN}

InitFinite ==
    /\ info \in FiniteInfos
    /\ frame = Idle
    /\ finite \in FiniteRequests
    /\ handle = NewHandle
    /\ threads = <<>>
    /\ basis = Idle

FiniteReciprocalCheck ==
    /\ finite.pc = "reciprocal"
    /\ finite' = ReciprocalCheck(info, finite)
    /\ UNCHANGED <<info, frame, handle, threads, basis>>

FiniteSource ==
    /\ finite.pc = "source"
    /\ finite' = SourceStep(info, finite)
    /\ UNCHANGED <<info, frame, handle, threads, basis>>

FiniteCallback ==
    /\ finite.pc = "callback"
    /\ \E cancel \in BOOLEAN : finite' = Callback(finite, cancel)
    /\ UNCHANGED <<info, frame, handle, threads, basis>>

FiniteResampleStep ==
    /\ finite.pc = "resample"
    /\ finite' = FiniteResample(info, finite)
    /\ UNCHANGED <<info, frame, handle, threads, basis>>

FiniteStreamStep ==
    /\ finite.pc = "stream"
    /\ finite' = FiniteStream(info, finite)
    /\ UNCHANGED <<info, frame, handle, threads, basis>>

NextFinite ==
    \/ FiniteReciprocalCheck
    \/ FiniteSource
    \/ FiniteCallback
    \/ FiniteResampleStep
    \/ FiniteStreamStep

SpecFinite == InitFinite /\ [][NextFinite]_vars

(* ------------------------- uses of the info cache ---------------------- *)

\* one caller on a freshly opened handle
InitInfo ==
    /\ info = None
    /\ frame = Idle
    /\ finite = Idle
    /\ handle = NewHandle
    /\ threads = <<NewThread>>
    /\ basis = Idle

\* a caller starts an operation
InfoOperation ==
    /\ \E t \in DOMAIN threads :
          /\ threads[t].pc = "idle"
          /\ Len(threads[t].ops) < MaxOps
          /\ \E op \in Operations :
                threads' = [threads EXCEPT ![t] = StartOperation(@, op)]
    /\ UNCHANGED <<info, frame, finite, handle, basis>>

InfoTry ==
    /\ \E t \in DOMAIN threads :
          /\ threads[t].pc = "try"
          /\ threads' = [threads EXCEPT ![t] = TryCached(handle, @)]
    /\ UNCHANGED <<info, frame, finite, handle, basis>>

InfoGetInfo ==
    /\ \E t \in DOMAIN threads :
          /\ threads[t].pc = "_get_info"
          /\ \/ /\ threads' = [threads EXCEPT ![t] = GetInfoReturns(handle, @)]
                /\ handle' = [handle EXCEPT !._get_info = Append(@, "returned")]
             \/ /\ NumberOf(handle._get_info, "raised") < MaxFailures
                /\ threads' = [threads EXCEPT ![t] = GetInfoRaises(handle, @)]
                /\ handle' = [handle EXCEPT !._get_info = Append(@, "raised")]
    /\ UNCHANGED <<info, frame, finite, basis>>

InfoStore ==
    /\ \E t \in DOMAIN threads :
          /\ threads[t].pc = "store"
          /\ handle' = StoreCached(handle, threads[t])
          /\ threads' = [threads EXCEPT ![t].pc = "return"]
    /\ UNCHANGED <<info, frame, finite, basis>>

InfoReturn ==
    /\ \E t \in DOMAIN threads :
          /\ threads[t].pc = "return"
          /\ threads' = [threads EXCEPT ![t] = ReturnCached(handle, @)]
    /\ UNCHANGED <<info, frame, finite, handle, basis>>

NextInfo ==
    \/ InfoOperation
    \/ InfoTry
    \/ InfoGetInfo
    \/ InfoStore
    \/ InfoReturn

SpecInfo == InitInfo /\ [][NextInfo]_vars

\* two or more threads on a freshly opened handle
InitInfoThreads ==
    /\ info = None
    /\ frame = Idle
    /\ finite = Idle
    /\ handle = NewHandle
    /\ threads \in {[t \in 1 .. n |-> NewThread] : n \in 2 .. MaxThreads}
    /\ basis = Idle

SpecInfoThreads == InitInfoThreads /\ [][NextInfo]_vars

(* ---------------------- calls of the spectral basis -------------------- *)

InitBasis ==
    /\ info = None
    /\ frame = Idle
    /\ finite = Idle
    /\ handle = NewHandle
    /\ threads = <<>>
    /\ basis \in {NewBasisCall(op, n) :
                    op \in BasisOperations, n \in (1 - MaxInvalid) .. MaxOrder}

BasisAllocateStep ==
    /\ basis.pc = "allocate"
    /\ basis' = BasisAllocate(basis)
    /\ UNCHANGED <<info, frame, finite, handle, threads>>

BasisLibStep ==
    /\ basis.pc = "lib"
    /\ \E how \in LibOutcomes(basis.n) : basis' = BasisLib(basis, how)
    /\ UNCHANGED <<info, frame, finite, handle, threads>>

BasisReturnStep ==
    /\ basis.pc = "return"
    /\ basis' = BasisReturn(basis)
    /\ UNCHANGED <<info, frame, finite, handle, threads>>

NextBasis ==
    \/ BasisAllocateStep
    \/ BasisLibStep
    \/ BasisReturnStep

SpecBasis == InitBasis /\ [][NextBasis]_vars

(* ------------------------------ properties ----------------------------- *)

Called == frame.pc # "idle"

Done == Called /\ frame.pc = "done"

Logged(f, what) == \E i \in 1 .. Len(f.log) : f.log[i][1] = what

TransformSteps == {"reconvolve", "resample", "gradient", "cumtrapz", "drop"}

Transformed(f) == \E what \in TransformSteps : Logged(f, what)

ValidKindAndCodes(f) ==
    /\ f.kind \in {"displacement", "velocity", "acceleration"}
    /\ \A i \in 1 .. Len(f.components) :
           f.components[i] \in {"Z", "N", "E", "R", "T"}

\* the database stores the orientation classes of the requested components
OrientationStored(f) ==
    info.is_reciprocal =>
        /\ (\E i \in 1 .. Len(f.components) :
               f.components[i] \in {"N", "E", "R", "T"})
             => "horizontal" \in info.components
        /\ (\E i \in 1 .. Len(f.components) : f.components[i] = "Z")
             => "vertical" \in info.components

HasOwnStf(source) == source.dt10 # None /\ source.sliprate # None

StoredOrder ==
    [errorf |-> 0, quheavi |-> 0, dirac_0 |-> 1, gauss_0 |-> 1,
     gauss_1 |-> 2, gauss_2 |-> 3]

KindOrder == [displacement |-> 0, velocity |-> 1, acceleration |-> 2]

\* C3: a call with reconvolve_stf and remove_source_shift both set, a valid
\* kind, valid component codes and a source the database covers ends with
\* ValueError and returns nothing.
C3_FlagsConflictRejected ==
    (/\ Done
     /\ frame.reconvolve_stf /\ frame.remove_source_shift
     /\ ValidKindAndCodes(frame)
     /\ frame.source.in_db)
    => frame.outcome = "ValueError"

\* C3 witness: such a call, rejected by the check of the two flags (after
\* the sanity checks passed and the series were extracted).
C3_Witness ==
    /\ Done
    /\ frame.reconvolve_stf /\ frame.remove_source_shift
    /\ ValidKindAndCodes(frame) /\ OrientationStored(frame)
    /\ frame.source.in_db
    /\ Logged(frame, "prepare")
    /\ frame.outcome = "ValueError"

ValidationFailure ==
    Done /\ frame.outcome \in {"ValueError", "NotImplementedError"}

\* C4 as claimed: every validation failure is raised before _get_seismograms
\* is invoked and before any component series has been transformed.
C4_AllValidationBeforeExtraction ==
    ValidationFailure =>
        ~Logged(frame, "_get_seismograms") /\ ~Transformed(frame)

\* C4 amended: every validation failure is raised before any component
\* series has been transformed; the failures of the sanity checks (unknown
\* kind, unknown component code, orientation class not stored) are raised
\* before _get_seismograms is invoked, all the others (the two flags, no own
\* STF, stored STF not deconvolvable, incompatible dt) after it has returned.
C4_ValidationBeforeTransforms ==
    ValidationFailure =>
        /\ ~Transformed(frame)
        /\ Logged(frame, "_get_seismograms") =>
               frame.data.series =
                   _get_seismograms(frame.source, frame.receiver,
                                    frame.components).series
        /\ Logged(frame, "_get_seismograms")
             <=> (ValidKindAndCodes(frame) /\ OrientationStored(frame))

\* C4 witness: the dt of the source is found incompatible for a request of
\* two components, after the extraction and with no series transformed.
C4_Witness ==
    /\ ValidationFailure
    /\ Len(frame.components) = 2
    /\ frame.reconvolve_stf /\ ~frame.remove_source_shift
    /\ HasOwnStf(frame.source) /\ Val(frame.source.dt10) # info.dt10
    /\ info.stf = "dirac_0"
    /\ Logged(frame, "_get_seismograms")
    /\ ~Transformed(frame)

\* C5: once computed, n_derivative is the order of the kind minus the order
\* of the stored STF tag, plus 2 for a force source and for no other source.
C5_DerivativeOrder ==
    (Called /\ Logged(frame, "prepare")) =>
        frame.n_derivative =
            KindOrder[frame.kind] - StoredOrder[info.stf]
              + (IF frame.source.type = "ForceSource" THEN 2 ELSE 0)

\* C5 witness: acceleration from a force source on an errorf database, four
\* differentiations.
C5_Witness ==
    /\ Called /\ Logged(frame, "prepare")
    /\ frame.source.type = "ForceSource"
    /\ frame.kind = "acceleration" /\ info.stf = "errorf"
    /\ frame.n_derivative = 4

\* the precondition of C6: reconvolution without shift removal for a source
\* with its own dt and sliprate, in a call that got past the sanity checks
\* and the extraction
ReconvolutionRequested ==
    /\ Done
    /\ frame.reconvolve_stf /\ ~frame.remove_source_shift
    /\ HasOwnStf(frame.source)
    /\ ValidKindAndCodes(frame) /\ OrientationStored(frame)
    /\ frame.source.in_db

NotDeconvolvableOutcome ==
    /\ StoredOrder[info.stf] \notin {0, 1} =>
          /\ frame.outcome = "NotImplementedError"
          /\ frame.data.series =
                 _get_seismograms(frame.source, frame.receiver,
                                  frame.components).series
    /\ StoredOrder[info.stf] \in {0, 1} =>
          frame.outcome # "NotImplementedError"

\* C6 as claimed: with reconvolve_stf set, every stored tag of order 2 or 3
\* makes the call fail with NotImplementedError, no component modified;
\* tags of order 0 or 1 never do.
C6_UnsupportedTagRejected == ReconvolutionRequested => NotDeconvolvableOutcome

\* C6 amended: the same, for calls that request at least one component (the
\* check is made inside the loop over the components).
C6_UnsupportedTagRejectedNonEmpty ==
    (ReconvolutionRequested /\ frame.components # <<>>)
        => NotDeconvolvableOutcome

\* C6 witness: two components requested from a gauss_1 database.
C6_Witness ==
    /\ ReconvolutionRequested
    /\ Len(frame.components) = 2
    /\ info.stf = "gauss_1"
    /\ frame.outcome = "NotImplementedError"

\* C7: whenever leading samples are dropped, k of them, the series gets k
\* samples shorter; without resampling k = src_shift_samples; with it
\* k = (src_shift - (src_shift mod dt)) / dt and the time of the first
\* resampled sample plus k * dt is the source shift.
C7_FirstSampleAtOrigin ==
    Called =>
      \A i \in 1 .. Len(frame.log) :
        frame.log[i][1] = "drop" =>
          LET k == frame.log[i][3]
              src10 == src_shift10(info)
          IN  /\ frame.log[i][5] = frame.log[i][4] - k
              /\ IF frame.dt = None
                 THEN k = info.src_shift_samples /\ k * info.dt10 = src10
                 ELSE LET dt10 == Val(frame.dt)
                      IN  /\ k = (src10 - (src10 % dt10)) \div dt10
                          /\ \A j \in 1 .. i :
                               (/\ frame.log[j][1] = "resample"
                                /\ frame.log[j][2] = frame.log[i][2])
                                 => ToTenths(frame.log[j][3]) + k * dt10 = src10

\* the calls of C8: those that pass every validation
PassesValidation ==
    /\ ValidKindAndCodes(frame) /\ OrientationStored(frame)
    /\ frame.source.in_db
    /\ ~(frame.reconvolve_stf /\ frame.remove_source_shift)
    /\ frame.reconvolve_stf =>
          /\ HasOwnStf(frame.source)
          /\ StoredOrder[info.stf] \in {0, 1}
          /\ Val(frame.source.dt10) = info.dt10

RemainingShift ==
    IF frame.remove_source_shift \/ frame.reconvolve_stf THEN 0
    ELSE IF frame.dt = None THEN FromTenths(src_shift10(info))
    ELSE FSub(FromTenths(src_shift10(info)),
              PyRound(FMod(FromTenths(src_shift10(info)),
                           FromTenths(Val(frame.dt)))))

\* C8: a call that passes validation and asks for a stream returns one whose
\* traces have delta = output dt and start time = origin time minus the
\* remaining shift, for any requested subset of the components.
C8_StreamTiming ==
    (Done /\ frame.return_obspy_stream /\ PassesValidation) =>
        /\ frame.outcome = "returned"
        /\ \A i \in 1 .. Len(frame.ret) :
             /\ frame.ret[i].delta =
                    (IF frame.dt = None THEN info.dt10 ELSE Val(frame.dt))
             /\ frame.ret[i].starttime =
                    (IF frame.source.origin_time = None THEN 0
                     ELSE Val(frame.source.origin_time) * One) - RemainingShift

FiniteCalled == finite.pc # "idle"

FiniteDone == FiniteCalled /\ finite.pc = "done"

\* get_seismograms for the j-th point source, as the finite-source method
\* is documented to use it: reconvolve_stf=True, remove_source_shift=False,
\* the requested components and the given kind
PointSource(j, kind) ==
    get_seismograms(info, finite.sources[j], finite.receiver,
                    finite.components, kind, FALSE, TRUE, FALSE, None)

\* the componentwise sum of the contributions of the first n point sources
RECURSIVE SumOfSources(_, _)
SumOfSources(comp, n) ==
    LET data == PointSource(n, "displacement").ret
        part == IF finite.correct_mu
                THEN [i \in 1 .. Len(data.series[comp]) |->
                         (data.series[comp][i] * data.mu) \div 32]
                ELSE data.series[comp]
    IN  IF n = 1 THEN part
        ELSE LET rest == SumOfSources(comp, n - 1)
             IN  [i \in 1 .. Len(part) |-> rest[i] + part[i]]

\* C1: with one or more sources and a dt, the series handed to the
\* resampling kernel for a component is the accumulated sum of all source
\* contributions, and the returned component is its resampling.
C1_ResamplesTheSum ==
    (/\ FiniteDone /\ finite.outcome = "returned"
     /\ finite.count >= 1 /\ finite.dt # None) =>
        \A i \in 1 .. Len(finite.components) :
            LET comp == finite.components[i]
                sum == SumOfSources(comp, finite.count)
            IN  /\ finite.lanczos_data[comp] = sum
                /\ finite.ret[i].data =
                       lanczos_interpolation(sum, FromTenths(info.dt10),
                           FiniteStart(info, Val(finite.dt)),
                           FromTenths(Val(finite.dt)),
                           Len(finite.ret[i].data))

\* C2: with exactly one source, correct_mu=False and no resampling, every
\* returned component equals the one get_seismograms returns for that
\* source with the same components and kind, reconvolve_stf=True and
\* remove_source_shift=False.
C2_OneSourceIsGetSeismograms ==
    (/\ FiniteDone /\ finite.outcome = "returned"
     /\ finite.count = 1 /\ ~finite.correct_mu /\ finite.dt = None) =>
        \A i \in 1 .. Len(finite.components) :
            finite.ret[i].data =
                PointSource(1, finite.kind).ret.series[finite.components[i]]

\* C9: the callback is invoked once after each processed source, in source
\* order, with (k, N); never without a callback; its first true answer ends
\* the call at once: None is returned, no later source has been extracted
\* and the callback is not invoked again.
C9_ProgressCallback ==
    FiniteCalled =>
        LET p == finite.progress
        IN  /\ \A k \in 1 .. Len(p) : p[k][1] = k /\ p[k][2] = finite.count
            /\ ~finite.progress_callback => p = <<>>
            /\ (finite.progress_callback
                  /\ finite.pc \in {"source", "resample", "stream"})
                 => Len(p) = finite._i
            /\ finite.pc = "callback" => Len(p) = finite._i - 1
            /\ (finite.progress_callback /\ FiniteDone
                  /\ finite.outcome = "returned")
                 => Len(p) = finite.count
            /\ \A k \in 1 .. Len(p) :
                 p[k][3] =>
                    /\ k = Len(p)
                    /\ finite.pc = "done"
                    /\ finite.outcome = "returned None"
                    /\ finite.ret = None
                    /\ finite.extracted = [j \in 1 .. k |-> j]
            /\ finite.outcome = "returned None" =>
                 (Len(p) >= 1 /\ p[Len(p)][3])

\* C9 witness: the callback cancels after the last of two sources.
C9_Witness ==
    /\ FiniteDone
    /\ finite.count = 2
    /\ Len(finite.progress) = 2
    /\ finite.progress[2] = <<2, 2, TRUE>>
    /\ finite.outcome = "returned None"

\* C10: when get_seismograms fails for the k-th source, the call ends at
\* once with that error: no later source is extracted, the callback is not
\* invoked for source k or a later one, nothing is returned.
C10_FirstFailurePropagates ==
    FiniteCalled =>
        \A k \in 1 .. Len(finite.extracted) :
            PointSource(k, "displacement").outcome # "returned" =>
                /\ finite.pc = "done"
                /\ finite.outcome = PointSource(k, "displacement").outcome
                /\ finite.extracted = [j \in 1 .. k |-> j]
                /\ Len(finite.progress) < k
                /\ finite.ret = None

\* C10 witness: the second of two sources fails, after one callback.
C10_Witness ==
    /\ FiniteDone
    /\ finite.count = 2
    /\ finite.extracted = <<1, 2>>
    /\ Len(finite.progress) = 1
    /\ finite.outcome = "ExtractionError"

\* the objects the reads of info have returned, over all callers
ObjectsSeen ==
    UNION {Range(threads[t].seen) : t \in DOMAIN threads}

\* C11: with a single caller, _get_info is not invoked before the first
\* access of info, no call of _get_info follows one that returned, and
\* every read of info returns the object the first read returned.
C11_InfoCachedOnce ==
    Len(threads) = 1 =>
        LET calls == handle._get_info
        IN  /\ threads[1].ops = <<>> => (calls = <<>> /\ handle.cached_info = None)
            /\ \A i, j \in 1 .. Len(calls) : i < j => calls[i] # "returned"
            /\ \A i \in 1 .. Len(threads[1].seen) :
                   threads[1].seen[i] = threads[1].seen[1]

\* C11 witness: the first operation fails in _get_info, the second one is
\* get_seismograms, whose first read fills the cache and whose second read
\* finds it.
C11_Witness ==
    /\ Len(threads) = 1
    /\ handle._get_info = <<"raised", "returned">>
    /\ threads[1].ops[2] = "get_seismograms"
    /\ threads[1].seen = <<2, 2>>
    /\ threads[1].pc = "idle"

\* C12: with two or more threads on a fresh handle, _get_info returns at
\* most once and all reads of info, of all threads, return the same object.
C12_InitialisedOnce ==
    Len(threads) >= 2 =>
        /\ NumberOf(handle._get_info, "returned") <= 1
        /\ Cardinality(ObjectsSeen) <= 1

\* the call ended in the sanity checks, with their validation error
SanityRejected ==
    /\ frame.pc = "done"
    /\ ~Logged(frame, "_get_seismograms")
    /\ frame.outcome = "ValueError"

\* an orientation class that is requested is not in the stored component set
OrientationMissing ==
    \/ /\ \E i \in 1 .. Len(frame.components) :
             frame.components[i] \in {"N", "E", "R", "T"}
       /\ "horizontal" \notin info.components
    \/ /\ \E i \in 1 .. Len(frame.components) : frame.components[i] = "Z"
       /\ "vertical" \notin info.components

\* a depth the database mode cannot honour: of the receiver for a reciprocal
\* database, of the source for a forward one
DepthIgnored ==
    IF info.is_reciprocal THEN frame.receiver.depth_in_m # <<>>
    ELSE frame.source.depth_in_m # <<>>

\* C13: for a valid kind and valid component codes, the sanity checks of a
\* reciprocal database reject the call exactly when a requested orientation
\* class is not stored; those of a forward database reject nothing; an
\* ignored depth gives a warning exactly when it is set, and a call that is
\* not rejected for its orientation goes on and returns, warned or not.
C13_OrientationChecks ==
    (Called /\ Logged(frame, "sanity_checks") /\ ValidKindAndCodes(frame)) =>
        /\ info.is_reciprocal => (SanityRejected <=> OrientationMissing)
        /\ ~info.is_reciprocal => ~SanityRejected
        /\ frame.warned <=> DepthIgnored
        /\ (Done /\ ~(info.is_reciprocal /\ OrientationMissing))
              => frame.outcome = "returned"

\* C13 witness: Z asked of a reciprocal database that stores the horizontal
\* components only, for a receiver with a depth: warned and rejected.
C13_Witness ==
    /\ Done /\ ValidKindAndCodes(frame)
    /\ info.is_reciprocal /\ info.components = {"horizontal"}
    /\ frame.components = <<"Z">>
    /\ frame.receiver.depth_in_m # <<>>
    /\ frame.warned
    /\ SanityRejected

\* C14: on a non-reciprocal database get_seismograms_finite_source ends
\* with NotImplementedError, with no source extracted, no call of the
\* progress callback and nothing returned.
C14_NonReciprocalRejected ==
    (FiniteCalled /\ ~info.is_reciprocal) =>
        /\ finite.extracted = <<>>
        /\ finite.progress = <<>>
        /\ finite.pc \in {"reciprocal", "done"}
        /\ finite.pc = "done" =>
              (finite.outcome = "NotImplementedError" /\ finite.ret = <<>>)

\* C14 witness: two sources and a progress callback, on a forward database.
C14_Witness ==
    /\ FiniteDone /\ ~info.is_reciprocal
    /\ finite.count = 2 /\ finite.progress_callback
    /\ finite.outcome = "NotImplementedError"
    /\ finite.extracted = <<>> /\ finite.progress = <<>>

BasisCalled == basis.pc # "idle"

\* C15: for an order n < 1 each wrapper ends with an error and has not
\* called the library; for n >= 1 it returns, the point sets with n + 1
\* entries and the derivative matrices with (n + 1) x (n + 1).
C15_InvalidOrderRejected ==
    BasisCalled =>
        /\ basis.n < 1 =>
              /\ basis.lib = <<>>
              /\ basis.pc \in {"allocate", "done"}
              /\ basis.pc = "done" => basis.outcome \notin {"returned", "fault"}
        /\ (basis.n >= 1 /\ basis.pc = "done") =>
              /\ basis.outcome = "returned"
              /\ basis.op \in {"zelegl", "zemngl2"} =>
                    basis.ret = <<(<<basis.n + 1>>)>>
              /\ basis.op = "def_lagrange_derivs_gll" =>
                    basis.ret = <<(<<basis.n + 1, basis.n + 1>>)>>
              /\ basis.op = "def_lagrange_derivs_glj" =>
                    basis.ret[2] = <<basis.n + 1, basis.n + 1>>

\* the steps logged for a component, in the order they were taken
StepsOf(f, comp) ==
    LET IsStep(e) == e[1] \in TransformSteps /\ e[2] = comp
    IN  SelectSeq(f.log, IsStep)

\* the names of the steps a component must go through, in order
StepsClaimed(f) ==
    (IF f.reconvolve_stf THEN <<"reconvolve">> ELSE <<>>)
    \o (IF f.dt # <<>> THEN <<"resample">> ELSE <<>>)
    \o [i \in 1 .. (IF f.n_derivative > 0 THEN f.n_derivative ELSE 0) |-> "gradient"]
    \o [i \in 1 .. (IF f.n_derivative < 0 THEN 0 - f.n_derivative ELSE 0) |-> "cumtrapz"]
    \o (IF f.remove_source_shift THEN <<"drop">> ELSE <<>>)

\* n > 0: n central-difference derivatives; n < 0: |n| trapezoid integrals
\* starting at zero; n = 0: the series itself
RECURSIVE ChangeOrder(_, _, _)
ChangeOrder(n, series, h) ==
    IF n > 0 THEN ChangeOrder(n - 1, Gradient(series, h), h)
    ELSE IF n < 0 THEN ChangeOrder(n + 1, Cumtrapz(series, h), h)
    ELSE series

\* the series the claimed order of steps gives for a component: the raw
\* series reconvolved, then resampled (at the start and to the length the
\* log names), then taken to the order of the kind, then cut by the number
\* of samples the log names
SeriesClaimed(f, comp) ==
    LET steps == StepsOf(f, comp)
        raw == _get_seismograms(f.source, f.receiver, f.components).series[comp]
        reconvolved == IF f.reconvolve_stf THEN Reconvolve(info, f.source, raw)
                       ELSE raw
        at == IF f.reconvolve_stf THEN 2 ELSE 1
        resampled == IF f.dt = <<>> THEN reconvolved
                     ELSE lanczos_interpolation(reconvolved,
                              FromTenths(info.dt10), steps[at][3],
                              FromTenths(f.dt[1]), steps[at][4])
        ordered == ChangeOrder(f.n_derivative, resampled, f.dt_out)
        drop == steps[Len(steps)]
    IN  IF f.remove_source_shift
        THEN SubSeq(ordered, drop[3] + 1, Len(ordered))
        ELSE ordered

\* the length of a component's series once resampled (or not)
FullLength(f, comp) ==
    LET steps == StepsOf(f, comp)
    IN  IF f.dt = <<>> THEN info.npts
        ELSE steps[IF f.reconvolve_stf THEN 2 ELSE 1][4]

\* C16: every component the loop has gone through took the steps
\* reconvolution, resampling, differentiation or integration, shift removal
\* in this order (each only if asked for, n_derivative gradients or
\* |n_derivative| integrations); its series is what these steps give in this
\* order; the derivatives and integrals keep the length of the series, and
\* the samples are dropped from the series of full length.
C16_TransformOrder ==
    Done =>
        \A i \in 1 .. frame.next - 1 :
            LET comp == frame.components[i]
                steps == StepsOf(frame, comp)
            IN  /\ [k \in 1 .. Len(steps) |-> steps[k][1]] = StepsClaimed(frame)
                /\ frame.data.series[comp] = SeriesClaimed(frame, comp)
                /\ Len(ChangeOrder(frame.n_derivative,
                                   [k \in 1 .. FullLength(frame, comp) |-> 0],
                                   frame.dt_out)) = FullLength(frame, comp)
                /\ frame.remove_source_shift =>
                      /\ steps[Len(steps)][4] = FullLength(frame, comp)
                      /\ Len(frame.data.series[comp])
                           = FullLength(frame, comp) - steps[Len(steps)][3]

\* C16 witness: acceleration from a force source on an errorf database (four
\* derivatives), resampled, with the source shift removed, two components.
C16_Witness ==
    /\ Done /\ frame.outcome = "returned"
    /\ frame.next = 3
    /\ frame.n_derivative = 4
    /\ frame.dt # <<>> /\ frame.remove_source_shift
    /\ info.src_shift_samples = 2
    /\ Len(StepsOf(frame, frame.components[2])) = 6

\* a new start and a new number of samples fit a series of len samples: the
\* start lies in [0, new dt) and the last new sample is not later than the
\* last old one (times compared as the decimals they stand for)
FitsSeries(start, new_npts, dt10, len) ==
    /\ 0 <= start
    /\ start < FromTenths(dt10)
    /\ ToTenths(start) + (new_npts - 1) * dt10 <= (len - 1) * info.dt10

\* C17: whenever the resampling kernel is invoked, by get_seismograms or by
\* get_seismograms_finite_source, the new start lies in [0, new dt) and the
\* new number of samples keeps the last new sample within the old series.
C17_ResamplingStartInRange ==
    /\ Called =>
          \A i \in 1 .. Len(frame.log) :
              frame.log[i][1] = "resample" =>
                  FitsSeries(frame.log[i][3], frame.log[i][4],
                             frame.dt[1], info.npts)
    /\ (FiniteCalled /\ DOMAIN finite.lanczos_data # {}) =>
          \A comp \in DOMAIN finite.lanczos_data :
              FitsSeries(FiniteStart(info, finite.dt[1]),
                         NewNpts(info, finite.dt[1],
                                 Len(finite.lanczos_data[comp]),
                                 FiniteStart(info, finite.dt[1])),
                         finite.dt[1], Len(finite.lanczos_data[comp]))
=============================================================================
